---------------------------- MODULE Spec2Model ----------------------------
(***************************************************************************)
(* Model of the Looking Glass host service (host/Service.cpp): the main    *)
(* thread running Initialize / Process / DeInitialize, the cursor          *)
(* publisher thread (Service::CursorThread), the shared memory they write  *)
(* (KVMFRHeader, the cursor region, the frame slots) and the client that   *)
(* reads it and acknowledges through the flag bytes.                       *)
(***************************************************************************)
EXTENDS Integers, Naturals, Sequences, FiniteSets, TLC

(***************************************************************************)
(* Bounds of the model.                                                    *)
(***************************************************************************)
MaxCycles == 3              \* number of Process cycles of the initialized service
MaxMixedCycles == 1         \* cycles of a run with frames and cursor updates
MaxShapes == 2              \* number of cursor shape updates the backend reports

(***************************************************************************)
(* Program constants.                                                      *)
(***************************************************************************)
MAX_FRAMES == 2             \* Service.h (not part of src/)
SizeofKVMFRHeader == 96     \* sizeof(KVMFRHeader), common/KVMFR.h (not part of src/)
CursorDataSize == 1048576   \* Service.cpp:117
AlignMask == 127            \* 0x7F, Service.cpp:110
LoopAttempts == 2           \* for(int i = 0; i < 2; ++i), Service.cpp:200
\* sizes, offsets and addresses are unsigned words and wrap: the word is
\* modelled with 30 bits, which holds every size and address used here
WordModulus == 1073741824   \* Service.cpp:121

NULL == 0
CAPTURE == 1                \* the ICapture * handed to Initialize

\* flag bits; a flags byte is modelled as the set of the bits that are set
KVMFR_HEADER_FLAG_RESTART == "RESTART"
KVMFR_HEADER_FLAG_PAUSED  == "PAUSED"
KVMFR_FRAME_FLAG_UPDATE   == "UPDATE"
KVMFR_CURSOR_FLAG_POS     == "POS"
KVMFR_CURSOR_FLAG_VISIBLE == "VISIBLE"
KVMFR_CURSOR_FLAG_SHAPE   == "SHAPE"
KVMFR_CURSOR_FLAG_UPDATE  == "UPDATE"

\* INTERLOCKED_AND8(flags, mask): one atomic and of the byte with the mask
INTERLOCKED_AND8(flags, mask) == flags \cap mask
HeaderBits == {KVMFR_HEADER_FLAG_RESTART, KVMFR_HEADER_FLAG_PAUSED}
\* ~(bit) of a header flags byte
Not8(bit) == HeaderBits \ {bit}

(***************************************************************************)
(* Inputs: what the transport and the capture backend may answer.          *)
(***************************************************************************)
Bases == {4096}                       \* GetMemory(): the mapping's address
\* GetSize(): below the header, below the frame slots, 4 MiB
Sizes == {64, 128, 4194304}
GoodSizes == {64, 4194304}
MaxFrameSizes == {1048576, 2097152}   \* GetMaxFrameSize(): fits, too large
CursorSizes == {4096, 2097152}        \* cursor.dataSize: fits, too large
Positions == {1}                      \* cursor.x, cursor.y
Shapes == {1}                         \* cursor.type, w, h, pitch, shape
GrabStatus == {"GRAB_STATUS_OK", "GRAB_STATUS_TIMEOUT", "GRAB_STATUS_CURSOR",
               "GRAB_STATUS_ERROR", "GRAB_STATUS_REINIT"}

(***************************************************************************)
(* Layout (Service::InitPointers).                                         *)
(***************************************************************************)
ALIGN_DN(x) == x - (x % (AlignMask + 1))

\* mutant: no alignment upward
ALIGN_UP_Unaligned(x) == x

ALIGN_UP(x) == ALIGN_DN(x + AlignMask)

CursorDataPtr(mem) == ALIGN_UP(mem + SizeofKVMFRHeader)
FramesPtr(mem) == ALIGN_UP(CursorDataPtr(mem) + CursorDataSize)
\* line 121: the subtraction is unsigned
FrameSizeOf(mem, size) ==
  ALIGN_DN(((size - (FramesPtr(mem) - mem)) % WordModulus) \div MAX_FRAMES)

NoLayout ==
  [m_memory |-> NULL, m_shmHeader |-> NULL, m_cursorData |-> NULL,
   m_cursorDataSize |-> 0, m_cursorOffset |-> 0, m_frameSize |-> 0,
   m_frame |-> [k \in 0..(MAX_FRAMES - 1) |-> NULL],
   m_dataOffset |-> [k \in 0..(MAX_FRAMES - 1) |-> 0]]

InitPointers(mem, size) ==
  [m_memory |-> mem, m_shmHeader |-> mem,
   m_cursorData |-> CursorDataPtr(mem),
   m_cursorDataSize |-> CursorDataSize,
   m_cursorOffset |-> CursorDataPtr(mem) - mem,
   m_frameSize |-> FrameSizeOf(mem, size),
   m_frame |-> [k \in 0..(MAX_FRAMES - 1) |->
                  (FramesPtr(mem) + k * FrameSizeOf(mem, size)) % WordModulus],
   m_dataOffset |-> [k \in 0..(MAX_FRAMES - 1) |->
                  (((FramesPtr(mem) + k * FrameSizeOf(mem, size)) % WordModulus)
                     - mem) % WordModulus]]

(***************************************************************************)
(* State.                                                                  *)
(***************************************************************************)
VARIABLES
  pcMain,        \* where the main thread is
  loc,           \* Process's locals and the return address of DeInitialize
  retval,        \* what the last call of the main thread returned
  m_initialized,
  m_capture,     \* NULL or the capture device
  layout,        \* m_memory, m_shmHeader, m_cursorData, ... m_dataOffset
  m_frameIndex,
  m_haveFrame,
  m_cursorThread,\* the thread handle: "invalid" or "open"
  m_cursorEvent, \* the auto-reset event: TRUE when signalled
  m_cursorCS,    \* owner of the critical section: "free" or "cursor"
  m_cursorInfo,  \* the staged cursor update
  ivshmem,       \* the transport: [open, size]
  pcCursor,      \* where the cursor thread is
  hdr,           \* shared: magic, version, flags of KVMFRHeader
  fi,            \* shared: m_shmHeader->frame
  cur,           \* shared: m_shmHeader->cursor
  cursorBytes,   \* shared: the bytes at m_cursorData
  slots,         \* shared: the pixel data of each frame slot
  cyc,           \* history of the current Process cycle
  hist,          \* history of the run
  env            \* what the backend and the client are let to do in this run

vars == <<pcMain, loc, retval, m_initialized, m_capture, layout, m_frameIndex,
          m_haveFrame, m_cursorThread, m_cursorEvent, m_cursorCS, m_cursorInfo,
          ivshmem, pcCursor, hdr, fi, cur, cursorBytes, slots, cyc, hist,
          env>>

ZeroFrame == [flags |-> {}, type |-> 0, width |-> 0, height |-> 0,
              stride |-> 0, pitch |-> 0, dataPos |-> 0]
ZeroCursor == [flags |-> {}, x |-> 0, y |-> 0, version |-> 0, type |-> 0,
               width |-> 0, height |-> 0, pitch |-> 0, dataPos |-> 0]
NoCursorInfo == [hasPos |-> FALSE, x |-> 0, y |-> 0, hasShape |-> FALSE,
                 dataSize |-> 0, type |-> 0, w |-> 0, h |-> 0, pitch |-> 0,
                 shape |-> 0, visible |-> FALSE]
\* what Initialize got from the transport and the backend: Initialize(),
\* GetSize(), GetMemory(), GetMaxFrameSize()
NoArgs == [openOk |-> FALSE, size |-> 0, mem |-> NULL, maxSz |-> 0]
NoLocals == [i |-> 0, ok |-> FALSE, cursorOnly |-> FALSE, repeat |-> FALSE,
             frame |-> 0, tmp |-> {}, ret |-> "idle", args |-> NoArgs]

\* history of a cycle: m_frameIndex and the frame descriptor when it began,
\* the UPDATE wait saw the bit clear, it saw RESTART
\* set, a result that is not to count was returned, GetFrame wrote into the
\* advertised slot with UPDATE set, a cursor update was staged, the cycle
\* set PAUSED, how the cycle ended ("error": Capture returned
\* GRAB_STATUS_ERROR; "exceeded": the retry count was exceeded)
NoCycle == [startIndex |-> 0, startFi |-> ZeroFrame, sawClear |-> FALSE,
            sawRestart |-> FALSE, free |-> FALSE, hazard |-> FALSE,
            staged |-> FALSE, paused |-> FALSE, last |-> "none"]

\* history of the run: the cycles begun and the shape updates staged, the
\* kinds staged since the last drain, the kinds the drain in progress took,
\* and the "position, then shape, neither drained" scenario
NoHist == [cycles |-> 0, nShapes |-> 0, pendPos |-> FALSE, pendShape |-> FALSE,
           tookPos |-> FALSE, tookShape |-> FALSE,
           joint |-> "none", jointVer |-> 0]

\* The runs explored. In a frame run the backend returns every status and
\* reports no cursor update, and the client acknowledges frames and requests
\* restarts. In a cursor run the backend returns GRAB_STATUS_CURSOR and
\* reports cursor updates, and the client acknowledges them. In a mixed run
\* both happen, over fewer cycles.
\* A transport smaller than the offset of the frame slots is part of the
\* frame runs.
FrameEnv == [results |-> GrabStatus, cursor |-> FALSE, client |-> TRUE,
             cycles |-> MaxCycles, sizes |-> Sizes]
CursorEnv == [results |-> {"GRAB_STATUS_CURSOR"}, cursor |-> TRUE,
              client |-> FALSE, cycles |-> MaxCycles, sizes |-> GoodSizes]
MixedEnv == [results |-> GrabStatus, cursor |-> TRUE, client |-> TRUE,
             cycles |-> MaxMixedCycles, sizes |-> GoodSizes]
Envs == {FrameEnv, CursorEnv, MixedEnv}

\* Service::Service(), and a zeroed mapping
Init ==
  /\ env \in Envs
  /\ pcMain = "idle"
  /\ loc = NoLocals
  /\ retval = FALSE
  /\ m_initialized = FALSE
  /\ m_capture = NULL
  /\ layout = NoLayout
  /\ m_frameIndex = 0
  /\ m_haveFrame = FALSE
  /\ m_cursorThread = "invalid"
  /\ m_cursorEvent = FALSE
  /\ m_cursorCS = "free"
  /\ m_cursorInfo = NoCursorInfo
  /\ ivshmem = [open |-> FALSE, size |-> 0]
  /\ pcCursor = "none"
  /\ hdr = [magic |-> FALSE, version |-> FALSE, flags |-> {}]
  /\ fi = ZeroFrame
  /\ cur = ZeroCursor
  /\ cursorBytes = 0
  /\ slots = [k \in 0..(MAX_FRAMES - 1) |-> 0]
  /\ cyc = NoCycle
  /\ hist = NoHist

(***************************************************************************)
(* The main thread: Initialize, DeInitialize.                              *)
(***************************************************************************)
Return(v) == pcMain' = "idle" /\ retval' = v

\* Service::Initialize, line 51: an initialized service is torn down first
InitializeCall ==
  /\ pcMain = "idle"
  /\ IF m_initialized
       THEN pcMain' = "deinit" /\ loc' = [loc EXCEPT !.ret = "init_body"]
       ELSE pcMain' = "init_body" /\ loc' = loc
  /\ UNCHANGED <<retval, m_initialized, m_capture, layout, m_frameIndex,
                 m_haveFrame, m_cursorThread, m_cursorEvent, m_cursorCS,
                 m_cursorInfo, ivshmem, pcCursor, hdr, fi, cur, cursorBytes,
                 slots, cyc, hist>>
  /\ UNCHANGED env

\* the layout Initialize ends up with, lines 70..89
InitLayout(mem, size) == InitPointers(mem, size)

\* mutant: the maximum frame size is not checked
FrameTooLargeUnchecked(maxSz, frameSize) == FALSE

\* line 84: m_capture->GetMaxFrameSize() > m_frameSize
FrameTooLarge(maxSz, frameSize) == maxSz > frameSize

\* Service::Initialize, lines 54..94: the checks, InitPointers, CreateThread
InitializeBody ==
  /\ pcMain = "init_body"
  /\ \E openOk \in BOOLEAN, size \in env.sizes, mem \in Bases \cup {NULL},
        maxSz \in MaxFrameSizes :
       LET a == [openOk |-> openOk, size |-> size, mem |-> mem,
                 maxSz |-> maxSz]
           fail == [loc EXCEPT !.ret = "init_fail", !.args = a]
       IN
       /\ m_capture' = CAPTURE
       /\ IF ~openOk
            THEN /\ pcMain' = "deinit"
                 /\ loc' = fail
                 /\ UNCHANGED <<ivshmem, layout, m_cursorThread, pcCursor,
                                m_cursorEvent>>
            ELSE /\ ivshmem' = [open |-> TRUE, size |-> size]
                 /\ IF size < SizeofKVMFRHeader \/ mem = NULL
                      THEN /\ pcMain' = "deinit"
                           /\ loc' = fail
                           /\ UNCHANGED <<layout, m_cursorThread, pcCursor,
                                          m_cursorEvent>>
                      ELSE /\ layout' = InitLayout(mem, size)
                           /\ IF FrameTooLarge(maxSz, layout'.m_frameSize)
                                THEN /\ pcMain' = "deinit"
                                     /\ loc' = fail
                                     /\ UNCHANGED <<m_cursorThread, pcCursor,
                                                    m_cursorEvent>>
                                ELSE /\ m_cursorThread' = "open"
                                     /\ pcCursor' = "loop"
                                     /\ m_cursorEvent' = FALSE
                                     /\ pcMain' = "init_header"
                                     /\ loc' = [loc EXCEPT !.args = a]
  /\ UNCHANGED <<retval, m_initialized, m_frameIndex, m_haveFrame, m_cursorCS,
                 m_cursorInfo, hdr, fi, cur, cursorBytes, slots, cyc, hist>>
  /\ UNCHANGED env

\* Service::Initialize, lines 97..103: the header, and the read of
\* m_shmHeader->flags &= ~KVMFR_HEADER_FLAG_RESTART
InitializeHeader ==
  /\ pcMain = "init_header"
  /\ hdr' = [hdr EXCEPT !.magic = TRUE, !.version = TRUE]
  /\ fi' = ZeroFrame
  /\ cur' = ZeroCursor
  /\ loc' = [loc EXCEPT !.tmp = hdr.flags]
  /\ pcMain' = "init_flags"
  /\ UNCHANGED <<retval, m_initialized, m_capture, layout, m_frameIndex,
                 m_haveFrame, m_cursorThread, m_cursorEvent, m_cursorCS,
                 m_cursorInfo, ivshmem, pcCursor, cursorBytes, slots, cyc,
                 hist>>
  /\ UNCHANGED env

\* Service::Initialize, lines 103..107: the write of that flags update
InitializeDone ==
  /\ pcMain = "init_flags"
  /\ hdr' = [hdr EXCEPT !.flags = loc.tmp \ {KVMFR_HEADER_FLAG_RESTART}]
  /\ m_haveFrame' = FALSE
  /\ m_initialized' = TRUE
  /\ Return(TRUE)
  /\ loc' = [loc EXCEPT !.args = NoArgs]
  /\ UNCHANGED <<m_capture, layout, m_frameIndex, m_cursorThread,
                 m_cursorEvent, m_cursorCS, m_cursorInfo, ivshmem, pcCursor,
                 fi, cur, cursorBytes, slots, cyc, hist>>
  /\ UNCHANGED env

\* a caller's DeInitialize()
DeInitializeCall ==
  /\ pcMain = "idle"
  /\ pcMain' = "deinit"
  /\ loc' = [loc EXCEPT !.ret = "idle"]
  /\ UNCHANGED <<retval, m_initialized, m_capture, layout, m_frameIndex,
                 m_haveFrame, m_cursorThread, m_cursorEvent, m_cursorCS,
                 m_cursorInfo, ivshmem, pcCursor, hdr, fi, cur, cursorBytes,
                 slots, cyc, hist>>
  /\ UNCHANGED env

\* mutant: DeInitialize does not wait for the thread
JoinReturnsAtOnce == TRUE

\* WaitForSingleObject(m_cursorThread, INFINITE), line 140: returns once the
\* thread has ended; at once (WAIT_FAILED) when the handle is no thread.
\* "invalid" stands for every value that is not the handle of a thread of
\* this service: the value the constructor leaves, which it does not
\* initialize, and a closed handle
JoinReturns == m_cursorThread = "invalid" \/ pcCursor = "exited"

\* Service::DeInitialize, lines 140..166
DeInitialize ==
  /\ pcMain = "deinit"
  /\ JoinReturns
  /\ m_cursorThread' = "invalid"
  /\ m_cursorEvent' = FALSE
  /\ layout' = NoLayout
  /\ m_haveFrame' = FALSE
  /\ ivshmem' = [open |-> FALSE, size |-> 0]
  /\ m_capture' = NULL
  /\ m_initialized' = FALSE
  /\ pcMain' = IF loc.ret = "init_body" THEN "init_body" ELSE "idle"
  /\ retval' = IF loc.ret = "init_fail" THEN FALSE ELSE retval
  /\ loc' = [loc EXCEPT !.args = NoArgs]
  /\ UNCHANGED <<m_frameIndex, m_cursorCS, m_cursorInfo, pcCursor, hdr, fi,
                 cur, cursorBytes, slots, cyc, hist>>
  /\ UNCHANGED env



(***************************************************************************)
(* The main thread: Process.                                               *)
(***************************************************************************)
\* a return of Process; the history of a cycle is kept when it ended on an
\* error of Capture or on the retry count, until the next cycle begins
ProcReturn(v, why) ==
  /\ Return(v)
  /\ cyc' = IF why = "none" THEN NoCycle ELSE [cyc EXCEPT !.last = why]

\* what a step of Process that touches only pcMain, loc, hdr, cyc and
\* retval leaves alone
procRest == <<m_initialized, m_capture, layout, m_frameIndex, m_haveFrame,
              m_cursorThread, m_cursorEvent, m_cursorCS, m_cursorInfo,
              ivshmem, pcCursor, fi, cur, cursorBytes, slots, hist>>

\* Service::Process, lines 171..177 and 195..199: the initialized check, the
\* read of the RESTART bit, the locals
ProcessCall ==
  /\ pcMain = "idle"
  /\ IF ~m_initialized
       THEN /\ Return(FALSE)
            /\ UNCHANGED <<loc, cyc, hist>>
       ELSE /\ hist.cycles < env.cycles
            /\ hist' = [hist EXCEPT !.cycles = @ + 1]
            /\ loc' = [NoLocals EXCEPT !.ret = loc.ret]
            /\ cyc' = [NoCycle EXCEPT !.startIndex = m_frameIndex,
                                      !.startFi = fi]
            /\ pcMain' = IF KVMFR_HEADER_FLAG_RESTART \in hdr.flags
                           THEN "restart" ELSE "capture"
            /\ UNCHANGED retval
  /\ UNCHANGED <<m_initialized, m_capture, layout, m_frameIndex, m_haveFrame,
                 m_cursorThread, m_cursorEvent, m_cursorCS, m_cursorInfo,
                 ivshmem, pcCursor, hdr, fi, cur, cursorBytes, slots>>
  /\ UNCHANGED env

\* Service::Process, lines 178..193: the client has flagged a restart
RestartService ==
  /\ pcMain = "restart"
  /\ \E reinitOk \in BOOLEAN, maxSz \in MaxFrameSizes :
       IF ~reinitOk \/ maxSz > layout.m_frameSize
         THEN /\ ProcReturn(FALSE, "none")
              /\ UNCHANGED hdr
         ELSE /\ hdr' = [hdr EXCEPT !.flags =
                     INTERLOCKED_AND8(hdr.flags, Not8(KVMFR_HEADER_FLAG_RESTART))]
              /\ pcMain' = "capture"
              /\ UNCHANGED <<retval, cyc>>
  /\ UNCHANGED loc
  /\ UNCHANGED procRest
  /\ UNCHANGED env

\* --m_frameIndex with its wrap, lines 214..215
RewindIndex(idx) == IF idx - 1 < 0 THEN MAX_FRAMES - 1 ELSE idx - 1
\* ++m_frameIndex with its wrap, lines 332..333
AdvanceIndex(idx) == IF idx + 1 = MAX_FRAMES THEN 0 ELSE idx + 1

\* mutant: "continue" without "--i"
RetryCounts(i) == i + 1

\* the loop counter after "--i; continue;": the for statement's ++i follows
RetryFree(i) == (i - 1) + 1

\* mutant: a repeated frame is captured and published as a new one
FrameStepIgnoresRepeat(l) == IF l.cursorOnly THEN "final" ELSE "get_frame"

\* where Process goes after the cursor staging, lines 303..308
FrameStep(l) ==
  IF l.cursorOnly THEN "final"
  ELSE IF l.repeat THEN "wait_update" ELSE "get_frame"

\* case GRAB_STATUS_TIMEOUT, lines 209..221
OnTimeout(l, haveFrame, idx) ==
  IF haveFrame
    THEN [l |-> [l EXCEPT !.ok = TRUE, !.repeat = TRUE],
          idx |-> RewindIndex(idx), pc |-> "cursor"]
    ELSE [l |-> [l EXCEPT !.i = RetryFree(l.i)], idx |-> idx, pc |-> "capture"]

\* mutant: "break" instead of "return false": the loop goes on
OnErrorRetries(l, idx) == [l |-> [l EXCEPT !.i = l.i + 1], idx |-> idx,
                           pc |-> "capture"]

\* case GRAB_STATUS_ERROR, lines 228..230: return false
OnError(l, idx) == [l |-> l, idx |-> idx, pc |-> "error"]

\* the switch of lines 203..263 and the "if (ok) break" after it
OnResult(r, l, haveFrame, idx) ==
  CASE r = "GRAB_STATUS_OK" ->
         [l |-> [l EXCEPT !.ok = TRUE], idx |-> idx, pc |-> "cursor"]
    [] r = "GRAB_STATUS_TIMEOUT" -> OnTimeout(l, haveFrame, idx)
    [] r = "GRAB_STATUS_CURSOR" ->
         [l |-> [l EXCEPT !.ok = TRUE, !.cursorOnly = TRUE], idx |-> idx,
          pc |-> "cursor"]
    [] r = "GRAB_STATUS_ERROR" -> OnError(l, idx)
    [] r = "GRAB_STATUS_REINIT" -> [l |-> l, idx |-> idx, pc |-> "pause_read"]

\* Service::Process, lines 200..273: one pass of the capture loop
Capture ==
  /\ pcMain = "capture"
  /\ IF ~(loc.i < LoopAttempts)
       THEN \* line 269: the loop ended with ok false
            /\ ProcReturn(FALSE, "exceeded")
            /\ UNCHANGED <<loc, m_frameIndex>>
       ELSE \E r \in env.results :
            LET t == OnResult(r, loc, m_haveFrame, m_frameIndex) IN
            /\ loc' = t.l
            /\ m_frameIndex' = t.idx
            /\ cyc' = [cyc EXCEPT
                 !.free = @ \/ (r = "GRAB_STATUS_TIMEOUT" /\ ~m_haveFrame),
                 !.last = IF r = "GRAB_STATUS_ERROR" THEN "error" ELSE @]
            /\ IF t.pc = "error"
                 THEN Return(FALSE)
                 ELSE pcMain' = t.pc /\ UNCHANGED retval
  /\ UNCHANGED <<m_initialized, m_capture, layout, m_haveFrame,
                 m_cursorThread, m_cursorEvent, m_cursorCS, m_cursorInfo,
                 ivshmem, pcCursor, hdr, fi, cur, cursorBytes, slots, hist>>
  /\ UNCHANGED env

\* line 235, *flags |= KVMFR_HEADER_FLAG_PAUSED: the read of the byte
SetPausedRead ==
  /\ pcMain = "pause_read"
  /\ loc' = [loc EXCEPT !.tmp = hdr.flags]
  /\ pcMain' = "pause_write"
  /\ UNCHANGED <<hdr, cyc, retval>>
  /\ UNCHANGED procRest
  /\ UNCHANGED env

\* mutant: the handling of GRAB_STATUS_REINIT does not set PAUSED
PausedNotSet(read) == read

\* the byte *flags |= KVMFR_HEADER_FLAG_PAUSED stores, from the byte it read
PausedSet(read) == read \cup {KVMFR_HEADER_FLAG_PAUSED}
\* the byte *flags &= ~KVMFR_HEADER_FLAG_PAUSED stores, from the byte it read
PausedCleared(read) == read \cap Not8(KVMFR_HEADER_FLAG_PAUSED)

\* line 235: the write of the byte
SetPausedWrite ==
  /\ pcMain = "pause_write"
  /\ hdr' = [hdr EXCEPT !.flags = PausedSet(loc.tmp)]
  /\ pcMain' = "session"
  /\ cyc' = [cyc EXCEPT !.paused = TRUE]
  /\ UNCHANGED <<loc, retval>>
  /\ UNCHANGED procRest
  /\ UNCHANGED env

\* lines 236..241: wait until the console session is ours again
SessionPoll ==
  /\ pcMain = "session"
  /\ \E ours \in BOOLEAN :
       pcMain' = IF ours THEN "can_initialize" ELSE "session_sleep"
  /\ UNCHANGED <<loc, hdr, cyc, retval>>
  /\ UNCHANGED procRest
  /\ UNCHANGED env

\* line 240: Sleep(100)
SessionSleep ==
  /\ pcMain = "session_sleep"
  /\ pcMain' = "session"
  /\ UNCHANGED <<loc, hdr, cyc, retval>>
  /\ UNCHANGED procRest
  /\ UNCHANGED env

\* line 243: while (!m_capture->CanInitialize())
CanInitializePoll ==
  /\ pcMain = "can_initialize"
  /\ \E can \in BOOLEAN :
       pcMain' = IF can THEN "reinitialize" ELSE "can_initialize_sleep"
  /\ UNCHANGED <<loc, hdr, cyc, retval>>
  /\ UNCHANGED procRest
  /\ UNCHANGED env

\* line 244: Sleep(100)
CanInitializeSleep ==
  /\ pcMain = "can_initialize_sleep"
  /\ pcMain' = "can_initialize"
  /\ UNCHANGED <<loc, hdr, cyc, retval>>
  /\ UNCHANGED procRest
  /\ UNCHANGED env

\* lines 246..258: ReInitialize, the size check, and the read of
\* *flags &= ~KVMFR_HEADER_FLAG_PAUSED
ReInitialize ==
  /\ pcMain = "reinitialize"
  /\ \E reinitOk \in BOOLEAN, maxSz \in MaxFrameSizes :
       IF ~reinitOk \/ maxSz > layout.m_frameSize
         THEN /\ ProcReturn(FALSE, "none")
              /\ UNCHANGED loc
         ELSE /\ loc' = [loc EXCEPT !.tmp = hdr.flags]
              /\ pcMain' = "unpause_write"
              /\ UNCHANGED <<retval, cyc>>
  /\ UNCHANGED hdr
  /\ UNCHANGED procRest
  /\ UNCHANGED env

\* lines 258..262: the write of the byte, then "--i; continue;"
ClearPausedWrite ==
  /\ pcMain = "unpause_write"
  /\ hdr' = [hdr EXCEPT !.flags = PausedCleared(loc.tmp)]
  /\ loc' = [loc EXCEPT !.i = RetryFree(loc.i)]
  /\ cyc' = [cyc EXCEPT !.free = TRUE]
  /\ pcMain' = "capture"
  /\ UNCHANGED retval
  /\ UNCHANGED procRest
  /\ UNCHANGED env


\* what GetCursor() may report: cursor.updated, hasPos, x and y, hasShape,
\* the shape (type, w, h, pitch and bytes), dataSize, visible
CursorDeltas ==
  [updated : BOOLEAN, hasPos : BOOLEAN, pos : Positions, hasShape : BOOLEAN,
   shape : Shapes, dataSize : CursorSizes, visible : BOOLEAN]

\* lines 280..298: m_cursorInfo after the update d is staged
Stage(info, d) ==
  LET a == IF d.hasPos
             THEN [info EXCEPT !.hasPos = TRUE, !.x = d.pos, !.y = d.pos]
             ELSE info
      b == IF d.hasShape
             THEN [a EXCEPT !.hasShape = TRUE, !.dataSize = d.dataSize,
                            !.type = d.shape, !.w = d.shape, !.h = d.shape,
                            !.pitch = d.shape, !.shape = d.shape]
             ELSE a
  IN [b EXCEPT !.visible = d.visible]

\* history: a position update and then a shape update that fits are both
\* staged and neither is drained ("pending"); a further position or shape
\* staged before the drain ends the scenario
StageHist(h, d, version) ==
  LET g == [h EXCEPT !.nShapes = IF d.hasShape THEN @ + 1 ELSE @,
                     !.pendPos = @ \/ d.hasPos,
                     !.pendShape = @ \/ d.hasShape]
  IN IF /\ d.hasShape /\ ~d.hasPos /\ h.pendPos /\ ~h.pendShape
        /\ d.dataSize <= CursorDataSize
       THEN [g EXCEPT !.joint = "pending", !.jointVer = version]
     ELSE IF h.joint = "pending" /\ (d.hasPos \/ d.hasShape)
       THEN [g EXCEPT !.joint = "none", !.jointVer = 0]
     ELSE g

\* Service::Process, lines 275..299: the cursor update is staged under
\* m_cursorCS
StageCursor ==
  /\ pcMain = "cursor"
  /\ \E d \in CursorDeltas :
       IF ~d.updated
         THEN /\ pcMain' = FrameStep(loc)
              /\ UNCHANGED <<m_cursorInfo, hist, cyc>>
         ELSE /\ env.cursor
              /\ d.hasShape => hist.nShapes < MaxShapes
              /\ m_cursorCS = "free"
              /\ m_cursorInfo' = Stage(m_cursorInfo, d)
              /\ hist' = StageHist(hist, d, cur.version)
              /\ cyc' = [cyc EXCEPT !.staged = TRUE]
              /\ pcMain' = "set_event"
  /\ UNCHANGED <<loc, retval, m_initialized, m_capture, layout, m_frameIndex,
                 m_haveFrame, m_cursorThread, m_cursorEvent, m_cursorCS,
                 ivshmem, pcCursor, hdr, fi, cur, cursorBytes, slots>>
  /\ UNCHANGED env

\* line 300: SetEvent(m_cursorEvent)
SetEvent ==
  /\ pcMain = "set_event"
  /\ m_cursorEvent' = TRUE
  /\ pcMain' = FrameStep(loc)
  /\ UNCHANGED <<loc, retval, m_initialized, m_capture, layout, m_frameIndex,
                 m_haveFrame, m_cursorThread, m_cursorCS, m_cursorInfo,
                 ivshmem, pcCursor, hdr, fi, cur, cursorBytes, slots, cyc,
                 hist>>
  /\ UNCHANGED env

\* history: the slot GetFrame is about to write is the one the frame
\* descriptor advertises, and the client has not cleared UPDATE
WritesAdvertised ==
  /\ KVMFR_FRAME_FLAG_UPDATE \in fi.flags
  /\ fi.dataPos = layout.m_dataOffset[m_frameIndex]

\* the pixel data of a slot after GetFrame wrote a frame into it
NewFrame(old) == 1

\* lines 310..316: GetFrame writes a frame into m_frame[m_frameIndex]; a
\* failed GetFrame may or may not have written, and Process returns its
\* status converted to bool
GetFrame ==
  /\ pcMain = "get_frame"
  /\ \E ok \in BOOLEAN, wrote \in BOOLEAN, v \in BOOLEAN :
       LET f == NewFrame(slots[m_frameIndex]) IN
       IF ok
         THEN /\ slots' = [slots EXCEPT ![m_frameIndex] = f]
              /\ loc' = [loc EXCEPT !.frame = f]
              /\ pcMain' = "wait_update"
              /\ cyc' = [cyc EXCEPT !.hazard = WritesAdvertised]
              /\ UNCHANGED retval
         ELSE /\ slots' = IF wrote THEN [slots EXCEPT ![m_frameIndex] = f]
                          ELSE slots
              /\ ProcReturn(v, "none")
              /\ UNCHANGED loc
  /\ UNCHANGED <<m_initialized, m_capture, layout, m_frameIndex, m_haveFrame,
                 m_cursorThread, m_cursorEvent, m_cursorCS, m_cursorInfo,
                 ivshmem, pcCursor, hdr, fi, cur, cursorBytes, hist>>
  /\ UNCHANGED env

\* where the wait loop of lines 319..323 and 341..345 leaves to
AfterWait(l) == IF l.repeat THEN "set_update" ELSE "write_frame"

\* mutant: the wait is left at once
UpdatePendingNoWait(f) == FALSE

\* the loop of lines 319 and 341 goes on while UPDATE is set
UpdatePending(f) == KVMFR_FRAME_FLAG_UPDATE \in f.flags

\* lines 319 and 341: while (fi->flags & KVMFR_FRAME_FLAG_UPDATE)
WaitUpdate ==
  /\ pcMain = "wait_update"
  /\ IF UpdatePending(fi)
       THEN pcMain' = "wait_restart" /\ cyc' = cyc
       ELSE /\ pcMain' = AfterWait(loc)
            /\ cyc' = [cyc EXCEPT !.sawClear =
                         KVMFR_FRAME_FLAG_UPDATE \notin fi.flags]
  /\ UNCHANGED <<loc, hdr, retval>>
  /\ UNCHANGED procRest
  /\ UNCHANGED env

\* lines 321 and 343: if (*flags & KVMFR_HEADER_FLAG_RESTART) break
WaitRestart ==
  /\ pcMain = "wait_restart"
  /\ IF KVMFR_HEADER_FLAG_RESTART \in hdr.flags
       THEN pcMain' = AfterWait(loc) /\ cyc' = [cyc EXCEPT !.sawRestart = TRUE]
       ELSE pcMain' = "wait_update" /\ cyc' = cyc
  /\ UNCHANGED <<loc, hdr, retval>>
  /\ UNCHANGED procRest
  /\ UNCHANGED env

\* lines 325..330: the frame descriptor of the frame in slot idx
FrameInfoOf(f, frame, offset) ==
  [f EXCEPT !.type = frame, !.width = frame, !.height = frame,
            !.stride = frame, !.pitch = frame, !.dataPos = offset]

\* lines 325..336: the frame descriptor, the slot index, m_haveFrame
WriteFrameInfo ==
  /\ pcMain = "write_frame"
  /\ fi' = FrameInfoOf(fi, loc.frame, layout.m_dataOffset[m_frameIndex])
  /\ m_frameIndex' = AdvanceIndex(m_frameIndex)
  /\ m_haveFrame' = TRUE
  /\ pcMain' = "set_update"
  /\ UNCHANGED <<loc, retval, m_initialized, m_capture, layout,
                 m_cursorThread, m_cursorEvent, m_cursorCS, m_cursorInfo,
                 ivshmem, pcCursor, hdr, cur, cursorBytes, slots, cyc, hist>>
  /\ UNCHANGED env

\* line 349: fi->flags |= KVMFR_FRAME_FLAG_UPDATE
SetUpdate ==
  /\ pcMain = "set_update"
  /\ fi' = [fi EXCEPT !.flags = fi.flags \cup {KVMFR_FRAME_FLAG_UPDATE}]
  /\ pcMain' = "final"
  /\ UNCHANGED <<loc, retval, m_initialized, m_capture, layout, m_frameIndex,
                 m_haveFrame, m_cursorThread, m_cursorEvent, m_cursorCS,
                 m_cursorInfo, ivshmem, pcCursor, hdr, cur, cursorBytes,
                 slots, cyc, hist>>
  /\ UNCHANGED env

\* lines 353..354: INTERLOCKED_AND8(flags, KVMFR_HEADER_FLAG_RESTART)
FinalFlags ==
  /\ pcMain = "final"
  /\ hdr' = [hdr EXCEPT !.flags =
               INTERLOCKED_AND8(hdr.flags, {KVMFR_HEADER_FLAG_RESTART})]
  /\ ProcReturn(TRUE, "none")
  /\ UNCHANGED loc
  /\ UNCHANGED procRest
  /\ UNCHANGED env


(***************************************************************************)
(* The cursor publisher thread: Service::CursorThread.                     *)
(***************************************************************************)
cursorRest == <<pcMain, loc, retval, m_initialized, m_capture, layout,
                m_frameIndex, m_haveFrame, m_cursorThread, ivshmem, hdr, fi,
                slots, cyc>>

\* line 359: while (m_capture)
CursorLoop ==
  /\ pcCursor = "loop"
  /\ pcCursor' = IF m_capture = NULL THEN "exited" ELSE "wait_event"
  /\ UNCHANGED <<m_cursorEvent, m_cursorCS, m_cursorInfo, cur, cursorBytes,
                 hist>>
  /\ UNCHANGED cursorRest
  /\ UNCHANGED env

\* lines 361..362: WaitForSingleObject(m_cursorEvent, 1000); the auto-reset
\* event is consumed by the wait it satisfies, an unsignalled one times out
CursorWaitEvent ==
  /\ pcCursor = "wait_event"
  /\ IF m_cursorEvent
       THEN m_cursorEvent' = FALSE /\ pcCursor' = "ack_poll"
       ELSE m_cursorEvent' = m_cursorEvent /\ pcCursor' = "loop"
  /\ UNCHANGED <<m_cursorCS, m_cursorInfo, cur, cursorBytes, hist>>
  /\ UNCHANGED cursorRest
  /\ UNCHANGED env

\* line 366: the client is ready when the cursor flags byte is zero
ClientReady(c) == c.flags = {}

\* line 366: while (cursor->flags != 0)
CursorAckPoll ==
  /\ pcCursor = "ack_poll"
  /\ pcCursor' = IF ClientReady(cur) THEN "lock" ELSE "ack_sleep"
  /\ UNCHANGED <<m_cursorEvent, m_cursorCS, m_cursorInfo, cur, cursorBytes,
                 hist>>
  /\ UNCHANGED cursorRest
  /\ UNCHANGED env

\* lines 368..370: Sleep(2); if (!m_capture) return 0
CursorAckSleep ==
  /\ pcCursor = "ack_sleep"
  /\ pcCursor' = IF m_capture = NULL THEN "exited" ELSE "ack_poll"
  /\ UNCHANGED <<m_cursorEvent, m_cursorCS, m_cursorInfo, cur, cursorBytes,
                 hist>>
  /\ UNCHANGED cursorRest
  /\ UNCHANGED env

\* line 373: EnterCriticalSection(&m_cursorCS)
CursorLock ==
  /\ pcCursor = "lock"
  /\ m_cursorCS = "free"
  /\ m_cursorCS' = "cursor"
  /\ pcCursor' = "drain_pos"
  /\ hist' = [hist EXCEPT !.joint = IF @ = "published" THEN "none" ELSE @,
                          !.jointVer = IF hist.joint = "published" THEN 0 ELSE @]
  /\ UNCHANGED <<m_cursorEvent, m_cursorInfo, cur, cursorBytes>>
  /\ UNCHANGED cursorRest
  /\ UNCHANGED env

\* mutant: the dirty flag of the position is left set
TakePosKeepsDirty(info) == info

\* line 376: the staged position is taken
TakePos(info) == [info EXCEPT !.hasPos = FALSE]

\* mutant: UPDATE is raised together with POS
PublishPosUpdateFirst(c, info) ==
  [c EXCEPT !.flags = (c.flags \cup {KVMFR_CURSOR_FLAG_POS,
                                     KVMFR_CURSOR_FLAG_UPDATE})
                        \cup (IF info.visible
                                THEN {KVMFR_CURSOR_FLAG_VISIBLE} ELSE {}),
            !.x = info.x, !.y = info.y]

\* lines 379..386: the cursor descriptor after the position is published
PublishPos(c, info) ==
  [c EXCEPT !.flags = IF info.visible
                        THEN (c.flags \cup {KVMFR_CURSOR_FLAG_POS})
                               \cup {KVMFR_CURSOR_FLAG_VISIBLE}
                        ELSE (c.flags \cup {KVMFR_CURSOR_FLAG_POS})
                               \ {KVMFR_CURSOR_FLAG_VISIBLE},
            !.x = info.x, !.y = info.y]

\* lines 374..387
CursorDrainPos ==
  /\ pcCursor = "drain_pos"
  /\ IF m_cursorInfo.hasPos
       THEN /\ m_cursorInfo' = TakePos(m_cursorInfo)
            /\ cur' = PublishPos(cur, m_cursorInfo)
       ELSE UNCHANGED <<m_cursorInfo, cur>>
  /\ hist' = [hist EXCEPT !.tookPos = hist.pendPos, !.pendPos = FALSE]
  /\ pcCursor' = "drain_shape"
  /\ UNCHANGED <<m_cursorEvent, m_cursorCS, cursorBytes>>
  /\ UNCHANGED cursorRest
  /\ UNCHANGED env

\* mutant: the size of the shape is not checked
ShapeTooLargeUnchecked(info, capacity) == FALSE

\* mutant: the size check is inverted
ShapeTooLargeInverted(info, capacity) == info.dataSize <= capacity

\* line 392: the staged shape does not fit the cursor region
ShapeTooLarge(info, capacity) == info.dataSize > capacity

\* lines 397..404: the cursor descriptor after the shape is published
PublishShape(c, info, offset) ==
  [c EXCEPT !.flags = c.flags \cup {KVMFR_CURSOR_FLAG_SHAPE},
            !.version = c.version + 1,
            !.type = info.type, !.width = info.w, !.height = info.h,
            !.pitch = info.pitch, !.dataPos = offset]

\* lines 389..410: the shape, then LeaveCriticalSection
CursorDrainShape ==
  /\ pcCursor = "drain_shape"
  /\ IF m_cursorInfo.hasShape
       THEN /\ m_cursorInfo' = [m_cursorInfo EXCEPT !.hasShape = FALSE]
            /\ IF ShapeTooLarge(m_cursorInfo, layout.m_cursorDataSize)
                 THEN UNCHANGED <<cur, cursorBytes>>
                 ELSE /\ cur' = PublishShape(cur, m_cursorInfo,
                                             layout.m_cursorOffset)
                      /\ cursorBytes' = m_cursorInfo.shape
       ELSE UNCHANGED <<m_cursorInfo, cur, cursorBytes>>
  /\ hist' = [hist EXCEPT
       !.tookShape = hist.pendShape /\ m_cursorInfo.dataSize <= CursorDataSize,
       !.pendShape = FALSE,
       !.joint = IF @ = "pending" THEN "drained" ELSE @]
  /\ m_cursorCS' = "free"
  /\ pcCursor' = "set_update"
  /\ UNCHANGED m_cursorEvent
  /\ UNCHANGED cursorRest
  /\ UNCHANGED env

\* line 411: cursor->flags |= KVMFR_CURSOR_FLAG_UPDATE
CursorSetUpdate ==
  /\ pcCursor = "set_update"
  /\ cur' = [cur EXCEPT !.flags = cur.flags \cup {KVMFR_CURSOR_FLAG_UPDATE}]
  /\ hist' = [hist EXCEPT !.tookPos = FALSE, !.tookShape = FALSE,
                          !.joint = IF @ = "drained" THEN "published" ELSE @]
  /\ pcCursor' = "loop"
  /\ UNCHANGED <<m_cursorEvent, m_cursorCS, m_cursorInfo, cursorBytes>>
  /\ UNCHANGED cursorRest
  /\ UNCHANGED env

(***************************************************************************)
(* The client (the consumer of the shared memory).                         *)
(***************************************************************************)
clientRest == <<pcMain, loc, retval, m_initialized, m_capture, layout,
                m_frameIndex, m_haveFrame, m_cursorThread, m_cursorEvent,
                m_cursorCS, m_cursorInfo, ivshmem, pcCursor, cursorBytes,
                slots, cyc, hist>>

\* the client has copied the frame and clears UPDATE
ClientDoneFrame ==
  /\ env.client
  /\ KVMFR_FRAME_FLAG_UPDATE \in fi.flags
  /\ fi' = [fi EXCEPT !.flags = fi.flags \ {KVMFR_FRAME_FLAG_UPDATE}]
  /\ UNCHANGED <<hdr, cur>>
  /\ UNCHANGED clientRest
  /\ UNCHANGED env

\* the client requests a restart
ClientRestart ==
  /\ env.client
  /\ KVMFR_HEADER_FLAG_RESTART \notin hdr.flags
  /\ hdr' = [hdr EXCEPT !.flags = hdr.flags \cup {KVMFR_HEADER_FLAG_RESTART}]
  /\ UNCHANGED <<fi, cur>>
  /\ UNCHANGED clientRest
  /\ UNCHANGED env

\* the client has taken the cursor update and zeroes the cursor flags
ClientAckCursor ==
  /\ KVMFR_CURSOR_FLAG_UPDATE \in cur.flags
  /\ cur' = [cur EXCEPT !.flags = {}]
  /\ UNCHANGED <<hdr, fi>>
  /\ UNCHANGED clientRest
  /\ UNCHANGED env

(***************************************************************************)
(* The specifications.                                                     *)
(***************************************************************************)
MainStep ==
  \/ InitializeCall \/ InitializeBody \/ InitializeHeader \/ InitializeDone
  \/ DeInitializeCall \/ DeInitialize
  \/ ProcessCall \/ RestartService \/ Capture
  \/ SetPausedRead \/ SetPausedWrite \/ SessionPoll \/ SessionSleep
  \/ CanInitializePoll \/ CanInitializeSleep
  \/ ReInitialize \/ ClearPausedWrite
  \/ StageCursor \/ SetEvent \/ GetFrame \/ WaitUpdate \/ WaitRestart
  \/ WriteFrameInfo \/ SetUpdate \/ FinalFlags

CursorStep ==
  \/ CursorLoop \/ CursorWaitEvent \/ CursorAckPoll \/ CursorAckSleep
  \/ CursorLock \/ CursorDrainPos \/ CursorDrainShape \/ CursorSetUpdate

ClientStep ==
  \/ ClientDoneFrame \/ ClientRestart \/ ClientAckCursor

Next == MainStep \/ CursorStep \/ ClientStep

Spec == Init /\ [][Next]_vars

\* both threads of the service are scheduled fairly; the client is not
\* required to do anything
FairSpec == Spec /\ WF_vars(MainStep) /\ WF_vars(CursorStep)

\* as FairSpec, with a client that acknowledges every cursor update in the end
FairAckSpec == FairSpec /\ WF_vars(ClientAckCursor)

(***************************************************************************)
(* InitPointers alone, over more mappings than Initialize is run with.     *)
(***************************************************************************)
\* GetMemory(): mappings are page aligned
LayoutBases == {4096, 65536, 1048576}
\* GetSize(): from the header size on, around the offset of the frame slots,
\* and around 4 MiB
LayoutSizes ==
  {SizeofKVMFRHeader + 32 * k : k \in 0..7}
    \cup {CursorDataSize + 32 * k : k \in 0..31}
    \cup {4194304 + 100 * k : k \in 0..5}

LayoutInit == Init /\ env = FrameEnv

\* lines 70 and 78: m_memory = GetMemory(); InitPointers()
PlanLayout ==
  /\ \E mem \in LayoutBases, size \in LayoutSizes :
       /\ layout' = InitPointers(mem, size)
       /\ ivshmem' = [open |-> TRUE, size |-> size]
  /\ UNCHANGED <<pcMain, loc, retval, m_initialized, m_capture, m_frameIndex,
                 m_haveFrame, m_cursorThread, m_cursorEvent, m_cursorCS,
                 m_cursorInfo, pcCursor, hdr, fi, cur, cursorBytes, slots,
                 cyc, hist, env>>

LayoutSpec == LayoutInit /\ [][PlanLayout]_vars


(***************************************************************************)
(* Properties.                                                             *)
(***************************************************************************)
ProcessPcs == {"restart", "capture", "pause_read", "pause_write", "session",
               "session_sleep", "can_initialize", "can_initialize_sleep",
               "reinitialize", "unpause_write", "cursor",
               "set_event", "get_frame", "wait_update", "wait_restart",
               "write_frame", "set_update", "final"}
InProcess == pcMain \in ProcessPcs

\* the cursor thread exists and has not returned
CursorThreadRuns == pcCursor \notin {"none", "exited"}

\* type, width, height, stride, pitch and dataPos of a frame descriptor
FiFields(f) == <<f.type, f.width, f.height, f.stride, f.pitch, f.dataPos>>

FrameUpdateSet == KVMFR_FRAME_FLAG_UPDATE \in fi.flags
RestartSet == KVMFR_HEADER_FLAG_RESTART \in hdr.flags
CursorUpdateSet == KVMFR_CURSOR_FLAG_UPDATE \in cur.flags

\* C1: the producer never writes pixel data (GetFrame) into the slot that the
\* frame descriptor's dataPos advertises while the descriptor's UPDATE bit is
\* still set. The code does: after a repeated frame m_frameIndex stays on the
\* published slot and the next new frame is captured into it before the wait.
C1_NeverWritesAdvertisedSlot == ~cyc.hazard

\* C2: in every cycle that publishes, the frame descriptor is written and
\* UPDATE is set only after a read of that cycle saw UPDATE clear, or saw
\* RESTART set while waiting; UPDATE is set over a set UPDATE bit only in the
\* latter case.
C2_PublishAfterAcknowledge ==
  /\ pcMain \in {"write_frame", "set_update"} =>
       (cyc.sawClear \/ cyc.sawRestart)
  /\ (pcMain \in {"write_frame", "set_update"} /\ FrameUpdateSet) =>
       cyc.sawRestart

C2_Witness ==
  /\ pcMain = "set_update" /\ cyc.sawClear /\ ~cyc.sawRestart
  /\ hist.cycles >= 2 /\ m_haveFrame

\* C3: once DeInitialize is called on an initialized service, the cursor
\* thread eventually ends and DeInitialize eventually returns. The code
\* joins the thread before it clears m_capture, the only thing the thread's
\* loop tests.
C3_ShutdownTerminates ==
  (pcMain = "deinit" /\ m_initialized) ~> (pcMain # "deinit")

\* C4: a RESTART bit set by the client is cleared only by the restart
\* servicing at the top of a cycle (after a successful reinitialization) or
\* by Initialize; no other write of the producer to the flags byte clears it.
\* The code's *flags |= PAUSED and *flags &= ~PAUSED write back a byte read
\* earlier.
C4_RestartNeverLost ==
  [][(RestartSet /\ ~RestartSet') => pcMain \in {"restart", "init_flags"}]_vars

\* C5: setting the cursor UPDATE bit is the last write of a publish: while
\* UPDATE is set the cursor thread is outside lines 373..411, and the only
\* change to the cursor descriptor and the cursor region is the client's
\* zeroing of the flags byte.
CursorQuiet == pcCursor \in {"none", "loop", "wait_event", "ack_poll",
                             "ack_sleep", "exited"}
C5_UpdateIsLastWrite ==
  /\ [](CursorUpdateSet => CursorQuiet)
  /\ [][CursorUpdateSet =>
          /\ cursorBytes' = cursorBytes
          /\ cur' = cur \/ cur' = [cur EXCEPT !.flags = {}]]_vars

C5_Witness ==
  /\ CursorUpdateSet
  /\ KVMFR_CURSOR_FLAG_POS \in cur.flags
  /\ KVMFR_CURSOR_FLAG_SHAPE \in cur.flags
  /\ cur.version = 1 /\ cur.x = 1 /\ cursorBytes = 1


\* C6: a position update and then a shape update that fits, both staged
\* before the thread drains either, are published by one publish that
\* carries POS and SHAPE with UPDATE, with the version incremented once; no
\* publish carries a position or a shape that was not staged since the
\* drain before it, so neither is published a second time; and with a
\* client that acknowledges, the joint publish does happen unless Process
\* stages a further update first.
C6_JointPublishOnce ==
  /\ [](hist.joint = "drained" =>
          /\ pcCursor = "set_update"
          /\ {KVMFR_CURSOR_FLAG_POS, KVMFR_CURSOR_FLAG_SHAPE} \subseteq cur.flags
          /\ cur.version = hist.jointVer + 1)
  /\ [](hist.joint = "published" =>
          /\ cur.version = hist.jointVer + 1
          /\ \/ cur.flags = {}
             \/ {KVMFR_CURSOR_FLAG_POS, KVMFR_CURSOR_FLAG_SHAPE,
                 KVMFR_CURSOR_FLAG_UPDATE} \subseteq cur.flags)
  /\ [](pcCursor = "set_update" =>
          /\ KVMFR_CURSOR_FLAG_POS \in cur.flags => hist.tookPos
          /\ KVMFR_CURSOR_FLAG_SHAPE \in cur.flags => hist.tookShape)
  /\ (hist.joint = "pending") ~> (hist.joint \in {"drained", "none"})
  /\ (hist.joint = "drained") ~> (hist.joint = "published")

C6_Witness == hist.joint = "published" /\ CursorUpdateSet

\* C7: the cursor version changes only by +1 and only in a drain that
\* applies a staged shape fitting the cursor region (SHAPE set, bytes
\* copied), and every such drain increments it; Initialize alone zeroes it.
C7_VersionCountsAppliedShapes ==
  /\ [][cur'.version # cur.version =>
          \/ pcMain = "init_header" /\ cur'.version = 0
          \/ /\ cur'.version = cur.version + 1
             /\ pcCursor = "drain_shape"
             /\ hist.pendShape
             /\ m_cursorInfo.dataSize <= layout.m_cursorDataSize
             /\ KVMFR_CURSOR_FLAG_SHAPE \in cur'.flags
             /\ cursorBytes' = m_cursorInfo.shape]_vars
  /\ [][(/\ pcCursor = "drain_shape" /\ pcCursor' = "set_update"
         /\ hist.pendShape
         /\ m_cursorInfo.dataSize <= layout.m_cursorDataSize)
          => cur'.version = cur.version + 1]_vars

C7_Witness ==
  /\ cur.version = 1 /\ CursorUpdateSet
  /\ m_cursorInfo.dataSize > CursorDataSize /\ ~m_cursorInfo.hasShape

\* C8: a cycle whose capture times out after a frame was published rewinds
\* the slot index once and then leaves it, writes no pixel data, leaves
\* type, width, height, stride, pitch and dataPos, sets UPDATE only after
\* the wait, makes no further capture attempt, leaves the attempt counter
\* and returns success.
C8_RepeatedFrame ==
  /\ []((loc.repeat /\ pcMain \in {"set_update", "final"}) =>
          (cyc.sawClear \/ cyc.sawRestart))
  /\ [][(InProcess /\ ~loc.repeat /\ loc'.repeat) =>
          /\ m_haveFrame
          /\ m_frameIndex' = RewindIndex(m_frameIndex)
          /\ loc'.i = loc.i
          /\ slots' = slots /\ fi' = fi]_vars
  /\ [][(InProcess /\ loc.repeat) =>
          /\ m_frameIndex' = m_frameIndex
          /\ slots' = slots
          /\ FiFields(fi') = FiFields(fi)
          /\ loc'.i = loc.i
          /\ pcMain' \notin {"capture", "get_frame", "write_frame"}
          /\ pcMain' = "idle" => retval']_vars

C8_Witness == pcMain = "final" /\ loc.repeat /\ FrameUpdateSet

\* C9: ReinitRequested and Timeout without a published frame leave the
\* attempt counter as it was: whenever Capture is called the counter is
\* still 0, it never reaches the budget of 2, and no cycle ends on the
\* retry count.
C9_FreeResultsKeepBudget ==
  /\ cyc.last # "exceeded"
  /\ InProcess => loc.i < LoopAttempts
  /\ pcMain = "capture" => loc.i = 0

C9_Witness ==
  /\ pcMain = "capture" /\ cyc.free
  /\ KVMFR_HEADER_FLAG_PAUSED \notin hdr.flags /\ hist.cycles = 1

\* C10: after Capture returned GRAB_STATUS_ERROR the cycle is over and has
\* returned false: no step of Process follows, no cursor update was staged,
\* the slot index and the frame descriptor are as the cycle found them, and
\* the cycle has not set UPDATE.
C10_ErrorFailsTheCycle ==
  cyc.last = "error" =>
    /\ ~InProcess
    /\ retval = FALSE
    /\ ~cyc.staged
    /\ m_frameIndex = cyc.startIndex
    /\ FiFields(fi) = FiFields(cyc.startFi)
    /\ FrameUpdateSet => KVMFR_FRAME_FLAG_UPDATE \in cyc.startFi.flags

C10_Witness ==
  /\ cyc.last = "error" /\ pcMain = "idle"
  /\ m_haveFrame /\ FrameUpdateSet /\ cyc.free


\* C11: in the handling of GRAB_STATUS_REINIT the PAUSED bit is set while
\* the producer polls the session, polls CanInitialize and calls
\* ReInitialize; a cycle that set PAUSED clears it only by the write that
\* follows a successful ReInitialize and size check; and a cycle that leaves
\* from ReInitialize returns false with PAUSED set and with the frame
\* descriptor, the frame slots and the slot index as the cycle found them.
PausedSteps == {"session", "session_sleep", "can_initialize",
                "can_initialize_sleep", "reinitialize"}

PausedIsSet == KVMFR_HEADER_FLAG_PAUSED \in hdr.flags

C11_PausedDuringReinit ==
  /\ [](pcMain \in PausedSteps => (PausedIsSet /\ cyc.paused))
  /\ [][(cyc.paused /\ PausedIsSet /\ ~PausedIsSet') =>
          pcMain = "unpause_write"]_vars
  /\ [][(pcMain' = "unpause_write" /\ pcMain # "unpause_write") =>
          (pcMain = "reinitialize" /\ PausedIsSet)]_vars
  /\ [][(pcMain \in PausedSteps /\ pcMain' \notin PausedSteps) =>
          \/ pcMain = "reinitialize" /\ pcMain' = "unpause_write"
          \/ /\ pcMain = "reinitialize" /\ pcMain' = "idle"
             /\ retval' = FALSE
             /\ PausedIsSet'
             /\ fi' = fi /\ slots' = slots /\ m_frameIndex' = m_frameIndex
             /\ FiFields(fi) = FiFields(cyc.startFi)
             /\ m_frameIndex = cyc.startIndex
             /\ FrameUpdateSet => KVMFR_FRAME_FLAG_UPDATE \in cyc.startFi.flags]_vars

C11_Witness ==
  /\ pcMain = "unpause_write" /\ PausedIsSet /\ cyc.paused
  /\ KVMFR_HEADER_FLAG_RESTART \in hdr.flags


\* C12: Initialize fails whenever the transport does not open, its size is
\* below the header structure or the backend's maximum frame size exceeds
\* the slot size computed; a failing Initialize creates no cursor thread,
\* writes nothing to the shared header, returns false and leaves the service
\* uninitialized with the layout cleared, so that Process returns false; and
\* Initialize returns true only when none of the three conditions holds.
InitMustFail(a, lay) ==
  \/ ~a.openOk
  \/ a.size < SizeofKVMFRHeader
  \/ a.mem # NULL /\ a.maxSz > lay.m_frameSize

InitFailing == pcMain = "deinit" /\ loc.ret = "init_fail"

C12_InitializeFailures ==
  /\ [][(pcMain = "init_body" /\ pcMain' # "init_body") =>
          /\ InitMustFail(loc'.args, layout') => InitFailing'
          /\ InitFailing' => (~CursorThreadRuns' /\ m_cursorThread' # "open")]_vars
  /\ [][(pcMain = "init_body" \/ InitFailing) =>
          /\ hdr'.magic = hdr.magic /\ hdr'.version = hdr.version
          /\ hdr.flags \subseteq hdr'.flags
          /\ fi' = fi /\ cur' = cur /\ cursorBytes' = cursorBytes
          /\ slots' = slots]_vars
  /\ [][(InitFailing /\ ~InitFailing') =>
          /\ pcMain' = "idle" /\ retval' = FALSE
          /\ ~m_initialized' /\ layout' = NoLayout /\ m_capture' = NULL
          /\ ~ivshmem'.open
          /\ ~CursorThreadRuns' /\ m_cursorThread' # "open"]_vars
  /\ [](~m_initialized => ~InProcess)
  /\ []((~m_initialized /\ pcMain = "idle") =>
          (~CursorThreadRuns /\ layout = NoLayout))
  /\ [][(pcMain = "idle" /\ ~m_initialized /\ pcMain' = "idle") =>
          retval' = FALSE]_vars
  /\ [][(pcMain = "init_flags" /\ pcMain' = "idle") =>
          /\ retval' = TRUE /\ m_initialized'
          /\ ~InitMustFail(loc.args, layout)]_vars

C12_Witness ==
  /\ InitFailing /\ loc.args.openOk /\ loc.args.size >= SizeofKVMFRHeader
  /\ loc.args.maxSz > layout.m_frameSize /\ layout.m_frameSize > 0


\* C13: for every mapping whose size is at least the header size, the header
\* [0, header size), the cursor region [m_cursorOffset, m_cursorOffset +
\* m_cursorDataSize) and the frame slots [m_dataOffset[i], m_dataOffset[i] +
\* m_frameSize) that InitPointers lays out are pairwise disjoint, and the
\* cursor offset and every slot offset is a multiple of 128.
Disjoint(a, alen, b, blen) == a + alen <= b \/ b + blen <= a

SlotIds == 0..(MAX_FRAMES - 1)

InWait == pcMain \in {"wait_update", "wait_restart"}

C14_RestartUnblocksWithoutPayload ==
  /\ [][(InWait /\ FrameUpdateSet /\ ~RestartSet) =>
          (InWait' /\ FiFields(fi') = FiFields(fi))]_vars
  /\ [](cyc.sawRestart => pcMain \notin {"write_frame", "set_update"})
  /\ [][(InProcess /\ cyc.sawRestart) => FiFields(fi') = FiFields(fi)]_vars

\* C15: while the cursor thread exists and has not ended, the transport is
\* open and the header and cursor pointers are set: DeInitialize releases
\* the mapping only after the thread has terminated.
C15_MappingOutlivesThread ==
  CursorThreadRuns =>
    /\ ivshmem.open
    /\ layout.m_shmHeader # NULL
    /\ layout.m_cursorData # NULL
    /\ m_cursorThread = "open"

C15_Witness ==
  /\ pcMain = "deinit" /\ m_initialized
  /\ pcCursor = "set_update" /\ KVMFR_CURSOR_FLAG_SHAPE \in cur.flags


\* C16: the slot index stays in 0..MAX_FRAMES-1, it changes only by the
\* wrapping decrement of a repeated frame and the wrapping increment of a
\* new frame, and at the end of every repeated-frame cycle it names the slot
\* the frame descriptor advertises: m_dataOffset[m_frameIndex] = dataPos.
C16_IndexNamesPublishedSlot ==
  /\ [](m_frameIndex \in SlotIds)
  /\ [][m_frameIndex' # m_frameIndex =>
          \/ /\ pcMain = "write_frame"
             /\ m_frameIndex' = (m_frameIndex + 1) % MAX_FRAMES
          \/ /\ pcMain = "capture" /\ loc'.repeat
             /\ m_frameIndex' = (m_frameIndex + MAX_FRAMES - 1) % MAX_FRAMES]_vars
  /\ []((pcMain = "final" /\ loc.repeat) =>
          layout.m_dataOffset[m_frameIndex] = fi.dataPos)

\* C17: every wait of the producer is left once its escape condition holds:
\* the frame UPDATE wait, the session poll and the CanInitialize poll once
\* the client has raised RESTART, the cursor flags wait once the service is
\* shut down (m_capture is NULL).
InSessionPoll == pcMain \in {"session", "session_sleep"}

InCanInitializePoll == pcMain \in {"can_initialize", "can_initialize_sleep"}

InCursorAckWait == pcCursor \in {"ack_poll", "ack_sleep"}

C17_EveryWaitHasEscape ==
  /\ (InWait /\ RestartSet) ~> ~InWait
  /\ (InCursorAckWait /\ m_capture = NULL) ~> ~InCursorAckWait
  /\ (InSessionPoll /\ RestartSet) ~> ~InSessionPoll
  /\ (InCanInitializePoll /\ RestartSet) ~> ~InCanInitializePoll


\* C18: a drain of a staged shape larger than the cursor region leaves the
\* cursor descriptor (so SHAPE stays clear and the shape fields and dataPos
\* stay) and the cursor region, clears the staged shape's dirty flag and
\* goes on to the UPDATE write; the drain of a staged position sets POS, x,
\* y and VISIBLE from the staged values, whatever shape is staged.
OversizeStaged ==
  m_cursorInfo.hasShape /\ m_cursorInfo.dataSize > layout.m_cursorDataSize

C18_OversizeShapeDropped ==
  /\ [][(pcCursor = "drain_shape" /\ pcCursor' # pcCursor /\ OversizeStaged) =>
          /\ cur' = cur /\ cursorBytes' = cursorBytes
          /\ ~m_cursorInfo'.hasShape
          /\ pcCursor' = "set_update"]_vars
  /\ []((pcCursor = "set_update" /\ ~hist.tookShape) =>
          KVMFR_CURSOR_FLAG_SHAPE \notin cur.flags)
  /\ [][(pcCursor = "drain_pos" /\ pcCursor' # pcCursor
            /\ m_cursorInfo.hasPos) =>
          /\ cur'.flags = {KVMFR_CURSOR_FLAG_POS} \cup
               (IF m_cursorInfo.visible THEN {KVMFR_CURSOR_FLAG_VISIBLE}
                                        ELSE {})
          /\ cur'.x = m_cursorInfo.x /\ cur'.y = m_cursorInfo.y
          /\ ~m_cursorInfo'.hasPos
          /\ pcCursor' = "drain_shape"]_vars
  /\ [][(pcCursor = "set_update" /\ pcCursor' # pcCursor) =>
          (CursorUpdateSet' /\ pcCursor' = "loop")]_vars

C18_Witness ==
  /\ pcCursor = "set_update" /\ hist.cycles = 1 /\ hist.tookPos
  /\ m_cursorInfo.dataSize > CursorDataSize /\ ~m_cursorInfo.hasShape
  /\ cur.flags = {KVMFR_CURSOR_FLAG_POS, KVMFR_CURSOR_FLAG_VISIBLE}
  /\ cur.x = 1 /\ cur.version = 0 /\ cursorBytes = 0

\* C19: when the service is initialized, the cursor region and every frame
\* slot lie inside the mapped region [0, GetSize()).
C19_LayoutInsideMapping ==
  m_initialized =>
    /\ layout.m_cursorOffset + layout.m_cursorDataSize <= ivshmem.size
    /\ \A k \in SlotIds :
         layout.m_dataOffset[k] + layout.m_frameSize <= ivshmem.size

\* C20: with a client that acknowledges every cursor update and both threads
\* scheduled, every staged position is published, and so is every staged
\* shape that fits the cursor region.
PosPublishing == pcCursor = "set_update" /\ hist.tookPos

ShapePublishing == pcCursor = "set_update" /\ hist.tookShape

FittingShapePending ==
  hist.pendShape /\ m_cursorInfo.dataSize <= CursorDataSize

C20_EveryFittingShapePublished ==
  /\ hist.pendPos ~> PosPublishing
  /\ FittingShapePending ~> ShapePublishing

=============================================================================
